---- MODULE Spec2Model ----
(***************************************************************************)
(* Model of the household-ledger converters of kakeiboApp:                 *)
(*   convert_excel.py, convert_excel_split.py, convert_excel_final.py,     *)
(*   convert_excel_preserve_categories.py,                                 *)
(*   convert_excel_with_subcategories.py.                                  *)
(*                                                                         *)
(* A Python str is a sequence of one-character strings, so that `in`,      *)
(* strip, lower, replace, isdigit, the f-string formats and strptime are   *)
(* computed character by character.  A spreadsheet cell is a record        *)
(* [t, n, s]: t is the Python type openpyxl hands out ("none", "int",      *)
(* "float", "bool", "str"), n the number (a float is held in tenths, a     *)
(* bool as 0/1) and s the text.  A character outside ASCII is written by   *)
(* its code point ("u5149"); the comments give the text.  Column indices   *)
(* are Python's (0-based).                                                 *)
(***************************************************************************)
EXTENDS Integers, Sequences, FiniteSets, TLC

(***************************************************************************)
(* Python values                                                           *)
(***************************************************************************)
None == [t |-> "none", n |-> 0, s |-> <<>>]
PyInt(k) == [t |-> "int", n |-> k, s |-> <<>>]
\* a float with one decimal, held in tenths: PyFloat(5) is 0.5
PyFloat(tenths) == [t |-> "float", n |-> tenths, s |-> <<>>]
PyBool(b) == [t |-> "bool", n |-> IF b THEN 1 ELSE 0, s |-> <<>>]
PyText(chars) == [t |-> "str", n |-> 0, s |-> chars]

\* bool(x): None, 0, 0.0, False and '' are falsy
Truthy(c) ==
    CASE c.t = "none" -> FALSE
      [] c.t = "str" -> Len(c.s) > 0
      [] OTHER -> c.n # 0

\* isinstance(x, (int, float)); a Python bool is an int
IsNumber(c) == c.t \in {"int", "float", "bool"}

\* x <= 0 for a number (tenths keep the sign of a float)
NonPositive(c) == c.n <= 0

\* the nearest whole number, a half going up
PyRound(c) == IF c.t = "float" THEN (c.n + 5) \div 10 ELSE c.n

\* int(x): truncation toward zero
PyTrunc(c) ==
    IF c.t = "float"
    THEN (IF c.n >= 0 THEN c.n \div 10 ELSE -((-c.n) \div 10))
    ELSE c.n

Digits == <<"0", "1", "2", "3", "4", "5", "6", "7", "8", "9">>
DigitSet == {Digits[i] : i \in 1..10}
IsDigitChar(ch) == ch \in DigitSet
DigitVal(ch) == (CHOOSE i \in 1..10 : Digits[i] = ch) - 1

RECURSIVE NatStr(_)
\* the decimal digits of a natural number
NatStr(k) == IF k < 10 THEN <<Digits[k + 1]>>
             ELSE NatStr(k \div 10) \o <<Digits[(k % 10) + 1]>>

IntStr(k) == IF k < 0 THEN <<"-">> \o NatStr(-k) ELSE NatStr(k)

RECURSIVE StrNat(_)
\* int(s) of a string of decimal digits
StrNat(s) == IF Len(s) = 0 THEN 0
             ELSE 10 * StrNat(SubSeq(s, 1, Len(s) - 1)) + DigitVal(s[Len(s)])

\* str(x)
PyStr(c) ==
    CASE c.t = "str" -> c.s
      [] c.t = "int" -> IntStr(c.n)
      [] c.t = "float" ->
           (IF c.n < 0 THEN <<"-">> ELSE <<>>)
           \o NatStr((IF c.n < 0 THEN -c.n ELSE c.n) \div 10)
           \o <<".">> \o <<Digits[((IF c.n < 0 THEN -c.n ELSE c.n) % 10) + 1]>>
      [] c.t = "bool" -> (IF c.n = 1 THEN <<"T", "r", "u", "e">>
                          ELSE <<"F", "a", "l", "s", "e">>)
      [] OTHER -> <<"N", "o", "n", "e">>

\* f"{k:0Wd}" for k >= 0: zero-padded to at least `width` characters
RECURSIVE ZeroPad(_, _)
ZeroPad(s, width) == IF Len(s) >= width THEN s ELSE ZeroPad(<<"0">> \o s, width)

IsSpace(ch) == ch \in {" ", "\t", "\n"}

RECURSIVE LStrip(_)
LStrip(s) == IF Len(s) > 0 /\ IsSpace(s[1]) THEN LStrip(Tail(s)) ELSE s

RECURSIVE RStrip(_)
RStrip(s) == IF Len(s) > 0 /\ IsSpace(s[Len(s)])
             THEN RStrip(SubSeq(s, 1, Len(s) - 1)) ELSE s

\* s.strip()
Strip(s) == RStrip(LStrip(s))

UpperCase == <<"A", "B", "C", "D", "E", "F", "G", "H", "I", "J", "K", "L", "M",
               "N", "O", "P", "Q", "R", "S", "T", "U", "V", "W", "X", "Y", "Z">>
LowerCase == <<"a", "b", "c", "d", "e", "f", "g", "h", "i", "j", "k", "l", "m",
               "n", "o", "p", "q", "r", "s", "t", "u", "v", "w", "x", "y", "z">>
LowerChar(ch) == IF \E i \in 1..26 : UpperCase[i] = ch
                 THEN LowerCase[CHOOSE i \in 1..26 : UpperCase[i] = ch]
                 ELSE ch

\* s.lower()
Lower(s) == [i \in 1..Len(s) |-> LowerChar(s[i])]

\* pat in s
Contains(s, pat) ==
    \E i \in 0..(Len(s) - Len(pat)) : \A j \in 1..Len(pat) : s[i + j] = pat[j]

RECURSIVE Replace(_, _)
\* s.replace(pat, ''), pat non-empty: leftmost occurrences, left to right
Replace(s, pat) ==
    IF Len(s) < Len(pat) THEN s
    ELSE IF SubSeq(s, 1, Len(pat)) = pat
         THEN Replace(SubSeq(s, Len(pat) + 1, Len(s)), pat)
         ELSE <<s[1]>> \o Replace(Tail(s), pat)

\* s.isdigit()
IsDigitStr(s) == Len(s) > 0 /\ \A i \in 1..Len(s) : IsDigitChar(s[i])

\* code points, as far as str comparison needs them: '-' < digits
Ord(ch) == IF IsDigitChar(ch) THEN 48 + DigitVal(ch)
           ELSE IF ch = "-" THEN 45 ELSE 32

RECURSIVE StrLess(_, _)
\* a < b on str (lexicographic by code point)
StrLess(a, b) ==
    IF Len(b) = 0 THEN FALSE
    ELSE IF Len(a) = 0 THEN TRUE
    ELSE IF a[1] = b[1] THEN StrLess(Tail(a), Tail(b))
    ELSE Ord(a[1]) < Ord(b[1])

(***************************************************************************)
(* The five scripts                                                        *)
(***************************************************************************)
Variants == {"excel", "split", "final", "preserve", "subcat"}
\* the scripts that resolve the columns from the header row
HeaderDriven == {"final", "preserve", "subcat"}
\* the scripts that classify by keyword
KeywordVariants == {"excel", "split", "final"}

(***************************************************************************)
(* categorize_item                                                         *)
(***************************************************************************)
\* '固定費'
FixedCost == <<"u56FA", "u5B9A", "u8CBB">>
\* '光熱費'
Utilities == <<"u5149", "u71B1", "u8CBB">>
\* '娯楽費'
Leisure == <<"u5A2F", "u697D", "u8CBB">>
\* '交通費'
Transport == <<"u4EA4", "u901A", "u8CBB">>
\* '医療費'
Medical == <<"u533B", "u7642", "u8CBB">>
\* '食費'
Food == <<"u98DF", "u8CBB">>

\* 'ローン', '保険', 'loan', 'insurance', 'メットライフ', 'アクサ', '車両保険', 'aig';
\* convert_excel_final adds 'ネオファースト'
LoanWords(variant) ==
    {<<"u30ED", "u30FC", "u30F3">>, <<"u4FDD", "u967A">>, <<"l", "o", "a", "n">>,
     <<"i", "n", "s", "u", "r", "a", "n", "c", "e">>,
     <<"u30E1", "u30C3", "u30C8", "u30E9", "u30A4", "u30D5">>, <<"u30A2", "u30AF", "u30B5">>,
     <<"u8ECA", "u4E21", "u4FDD", "u967A">>, <<"a", "i", "g">>}
    \cup (IF variant = "final"
          THEN {<<"u30CD", "u30AA", "u30D5", "u30A1", "u30FC", "u30B9", "u30C8">>} ELSE {})

\* 'ソネット', 'モバイル', '携帯', 'スマホ', 'wifi', 'インターネット', 'ネット', '通信';
\* convert_excel_final adds 'ドコモ', 'netflix'
TelecomWords(variant) ==
    {<<"u30BD", "u30CD", "u30C3", "u30C8">>, <<"u30E2", "u30D0", "u30A4", "u30EB">>, <<"u643A", "u5E2F">>,
     <<"u30B9", "u30DE", "u30DB">>, <<"w", "i", "f", "i">>,
     <<"u30A4", "u30F3", "u30BF", "u30FC", "u30CD", "u30C3", "u30C8">>, <<"u30CD", "u30C3", "u30C8">>,
     <<"u901A", "u4FE1">>}
    \cup (IF variant = "final"
          THEN {<<"u30C9", "u30B3", "u30E2">>, <<"n", "e", "t", "f", "l", "i", "x">>}
          ELSE {})

\* '電気', '水道', 'ガス', '光熱', 'でんき', 'みず', '東京電力', '東京ガス', '下水', '水道局'
UtilityWords ==
    {<<"u96FB", "u6C17">>, <<"u6C34", "u9053">>, <<"u30AC", "u30B9">>, <<"u5149", "u71B1">>,
     <<"u3067", "u3093", "u304D">>, <<"u307F", "u305A">>, <<"u6771", "u4EAC", "u96FB", "u529B">>,
     <<"u6771", "u4EAC", "u30AC", "u30B9">>, <<"u4E0B", "u6C34">>, <<"u6C34", "u9053", "u5C40">>}

\* 'ジム', 'アッティーボ', '映画', 'レジャー', '娯楽'
LeisureWords ==
    {<<"u30B8", "u30E0">>, <<"u30A2", "u30C3", "u30C6", "u30A3", "u30FC", "u30DC">>, <<"u6620", "u753B">>,
     <<"u30EC", "u30B8", "u30E3", "u30FC">>, <<"u5A2F", "u697D">>}

\* 'ガソリン', '電車', 'バス', '交通', 'えき', 'タクシー', 'suica', 'パスモ';
\* convert_excel_final adds 'etc'
TransportWords(variant) ==
    {<<"u30AC", "u30BD", "u30EA", "u30F3">>, <<"u96FB", "u8ECA">>, <<"u30D0", "u30B9">>, <<"u4EA4", "u901A">>,
     <<"u3048", "u304D">>, <<"u30BF", "u30AF", "u30B7", "u30FC">>, <<"s", "u", "i", "c", "a">>,
     <<"u30D1", "u30B9", "u30E2">>}
    \cup (IF variant = "final" THEN {<<"e", "t", "c">>} ELSE {})

\* '病院', '薬', '医療', 'クリニック', 'びょういん', 'ドラッグ', '薬局'
MedicalWords ==
    {<<"u75C5", "u9662">>, <<"u85AC">>, <<"u533B", "u7642">>, <<"u30AF", "u30EA", "u30CB", "u30C3", "u30AF">>,
     <<"u3073", "u3087", "u3046", "u3044", "u3093">>, <<"u30C9", "u30E9", "u30C3", "u30B0">>, <<"u85AC", "u5C40">>}

\* any(word in text for word in words)
AnyWord(text, words) == \E w \in words : Contains(text, w)

\* x or ''
OrEmpty(c) == IF Truthy(c) THEN c ELSE PyText(<<>>)

\* f"{place or ''} {description or ''}".lower()
CategorizeText(place, description) ==
    Lower(PyStr(OrEmpty(place)) \o <<" ">> \o PyStr(OrEmpty(description)))

\* the first two tests after the utilities test
CategorizeItemUtilitiesFirst(variant, place, description) ==
    LET text == CategorizeText(place, description) IN
    IF AnyWord(text, UtilityWords) THEN Utilities
    ELSE IF AnyWord(text, LoanWords(variant)) THEN FixedCost
    ELSE IF AnyWord(text, TelecomWords(variant)) THEN FixedCost
    ELSE IF AnyWord(text, LeisureWords) THEN Leisure
    ELSE IF AnyWord(text, TransportWords(variant)) THEN Transport
    ELSE IF AnyWord(text, MedicalWords) THEN Medical
    ELSE Food

CategorizeItem(variant, place, description) ==
    LET text == CategorizeText(place, description) IN
    IF AnyWord(text, LoanWords(variant)) THEN FixedCost
    ELSE IF AnyWord(text, TelecomWords(variant)) THEN FixedCost
    ELSE IF AnyWord(text, UtilityWords) THEN Utilities
    ELSE IF AnyWord(text, LeisureWords) THEN Leisure
    ELSE IF AnyWord(text, TransportWords(variant)) THEN Transport
    ELSE IF AnyWord(text, MedicalWords) THEN Medical
    ELSE Food

(***************************************************************************)
(* parse_date                                                              *)
(***************************************************************************)
RECURSIVE DigitRun(_)
\* the length of the longest prefix of s made of digits (a greedy \d+)
DigitRun(s) == IF Len(s) > 0 /\ IsDigitChar(s[1]) THEN 1 + DigitRun(Tail(s)) ELSE 0

\* re.match(r'(\d+)\.(\d+)', name): anchored at the start only
ReMatch(name) ==
    LET a == DigitRun(name) IN
    /\ a >= 1
    /\ Len(name) > a
    /\ name[a + 1] = "."
    /\ DigitRun(SubSeq(name, a + 2, Len(name))) >= 1

\* int(match.group(1))
YearShort(name) == StrNat(SubSeq(name, 1, DigitRun(name)))

\* int(match.group(2))
SheetMonth(name) ==
    LET a == DigitRun(name)
        rest == SubSeq(name, a + 2, Len(name))
    IN StrNat(SubSeq(rest, 1, DigitRun(rest)))

IsLeap(y) == (y % 4 = 0 /\ y % 100 # 0) \/ y % 400 = 0

DaysInMonth(y, m) ==
    IF m = 2 THEN (IF IsLeap(y) THEN 29 ELSE 28)
    ELSE IF m \in {4, 6, 9, 11} THEN 30 ELSE 31

\* datetime.strptime(s, '%Y-%m-%d') does not raise: %Y is four digits, %m is
\* 1[0-2]|0[1-9]|[1-9], %d is 3[01]|[12]\d|0[1-9]|[1-9], nothing may remain,
\* and the day must exist in the month
StrptimeOk(s) ==
    \E lm \in 1..2, ld \in 1..2 :
        /\ Len(s) = 6 + lm + ld
        /\ IsDigitStr(SubSeq(s, 1, 4))
        /\ s[5] = "-"
        /\ s[6 + lm] = "-"
        /\ LET ys == SubSeq(s, 1, 4)
               ms == SubSeq(s, 6, 5 + lm)
               ds == SubSeq(s, 7 + lm, 6 + lm + ld)
           IN /\ IsDigitStr(ms) /\ IsDigitStr(ds)
              /\ (lm = 1 => ms[1] # "0")
              /\ (ld = 1 => ds[1] # "0")
              /\ StrNat(ms) \in 1..12
              /\ StrNat(ds) \in 1..31
              /\ StrNat(ys) >= 1
              /\ StrNat(ds) <= DaysInMonth(StrNat(ys), StrNat(ms))

\* f"{year:04d}-{month:02d}-{day:02d}"
DateStr(year, month, day) ==
    ZeroPad(IntStr(year), 4) \o <<"-">> \o ZeroPad(IntStr(month), 2)
    \o <<"-">> \o ZeroPad(IntStr(day), 2)

NoDate == [ok |-> FALSE, date |-> <<>>, year |-> 0, month |-> 0]

\* parse_date without the strptime test
ParseDateUnchecked(name, day) ==
    IF ~ReMatch(name) THEN NoDate
    ELSE IF ~IsNumber(day) THEN NoDate
    ELSE IF PyTrunc(day) < 1 \/ PyTrunc(day) > 31 THEN NoDate
    ELSE [ok |-> TRUE, date |-> DateStr(2000 + YearShort(name), SheetMonth(name),
                                        PyTrunc(day)),
          year |-> 2000 + YearShort(name), month |-> SheetMonth(name)]

\* parse_date(sheet_name, day); ok = FALSE is the None (or (None, None, None))
\* result; year and month are what the two later scripts return with the date
ParseDate(name, day) ==
    IF ~ReMatch(name) THEN NoDate
    ELSE IF ~IsNumber(day) THEN NoDate
    ELSE IF PyTrunc(day) < 1 \/ PyTrunc(day) > 31 THEN NoDate
    ELSE LET year == 2000 + YearShort(name)
             month == SheetMonth(name)
             date_str == DateStr(year, month, PyTrunc(day))
         IN IF StrptimeOk(date_str)
            THEN [ok |-> TRUE, date |-> date_str, year |-> year, month |-> month]
            ELSE NoDate

(***************************************************************************)
(* find_columns                                                            *)
(***************************************************************************)
\* '食品', '日用品', '外食費', '衣類', '家具・家電', '美容', '医療費', '交際費',
\* 'レジャー', 'ガソリン・ETC', '光熱費', '通信費', '保険',
\* '車関連【車検・税金・積立】', '税金', '経費', 'ローン'
main_categories ==
    {<<"u98DF", "u54C1">>, <<"u65E5", "u7528", "u54C1">>, <<"u5916", "u98DF", "u8CBB">>, <<"u8863", "u985E">>,
     <<"u5BB6", "u5177", "u30FB", "u5BB6", "u96FB">>, <<"u7F8E", "u5BB9">>, <<"u533B", "u7642", "u8CBB">>,
     <<"u4EA4", "u969B", "u8CBB">>, <<"u30EC", "u30B8", "u30E3", "u30FC">>,
     <<"u30AC", "u30BD", "u30EA", "u30F3", "u30FB", "E", "T", "C">>, <<"u5149", "u71B1", "u8CBB">>,
     <<"u901A", "u4FE1", "u8CBB">>, <<"u4FDD", "u967A">>,
     <<"u8ECA", "u95A2", "u9023", "u3010", "u8ECA", "u691C", "u30FB", "u7A0E", "u91D1", "u30FB", "u7A4D", "u7ACB", "u3011">>,
     <<"u7A0E", "u91D1">>, <<"u7D4C", "u8CBB">>, <<"u30ED", "u30FC", "u30F3">>}

\* '内訳'
Breakdown == <<"u5185", "u8A33">>
\* 'その他'
Other == <<"u305D", "u306E", "u4ED6">>

\* a dict: d[k] = v
Put(d, k, v) == [x \in (DOMAIN d) \cup {k} |-> IF x = k THEN v ELSE d[x]]
EmptyDict == [x \in {} |-> 0]

\* columns = {} (with 'categories': [] and 'subcategories': {} in the two
\* later scripts); basic holds the keys 'day', 'place', 'amount', 'description'
NoColumns == [basic |-> EmptyDict, categories |-> <<>>, subcategories |-> EmptyDict]

IsDayLabel(cell_str) ==
    cell_str = <<"u65E5">> \/ Contains(Lower(cell_str), <<"d", "a", "y">>)

IsPlaceLabel(cell_str) ==
    \/ Contains(cell_str, <<"u5834", "u6240">>)
    \/ Contains(Lower(cell_str), <<"p", "l", "a", "c", "e">>)

IsAmountLabel(cell_str) ==
    \/ Contains(cell_str, <<"u4FA1", "u683C">>)
    \/ Contains(cell_str, <<"u91D1", "u984D">>)
    \/ Contains(Lower(cell_str), <<"p", "r", "i", "c", "e">>)

IsDescriptionLabel(cell_str) ==
    \/ Contains(cell_str, <<"u5546", "u54C1">>)
    \/ Contains(Lower(cell_str), <<"i", "t", "e", "m">>)

\* the rules of the basic columns tried one after the other, each on its own
\* (if in place of elif)
FindColumnsCellEveryRule(variant, columns, i, cell_value) ==
    IF ~Truthy(cell_value) THEN columns
    ELSE LET cell_str == Strip(PyStr(cell_value))
             c1 == IF IsDayLabel(cell_str) /\ "day" \notin DOMAIN columns.basic
                   THEN [columns EXCEPT !.basic = Put(@, "day", i)] ELSE columns
             c2 == IF IsPlaceLabel(cell_str)
                   THEN [c1 EXCEPT !.basic = Put(@, "place", i)] ELSE c1
             c3 == IF IsAmountLabel(cell_str)
                   THEN [c2 EXCEPT !.basic = Put(@, "amount", i)] ELSE c2
         IN IF IsDescriptionLabel(cell_str)
            THEN [c3 EXCEPT !.basic = Put(@, "description", i)] ELSE c3

\* the day rule without its test for a day found earlier
FindColumnsCellLastDay(variant, columns, i, cell_value) ==
    IF ~Truthy(cell_value) THEN columns
    ELSE LET cell_str == Strip(PyStr(cell_value)) IN
         IF IsDayLabel(cell_str)
         THEN [columns EXCEPT !.basic = Put(@, "day", i)]
         ELSE IF IsPlaceLabel(cell_str)
         THEN [columns EXCEPT !.basic = Put(@, "place", i)]
         ELSE IF IsAmountLabel(cell_str)
         THEN [columns EXCEPT !.basic = Put(@, "amount", i)]
         ELSE IF IsDescriptionLabel(cell_str)
         THEN [columns EXCEPT !.basic = Put(@, "description", i)]
         ELSE columns

\* the body of the loop over enumerate(header_row), for cell i (0-based)
FindColumnsCell(variant, columns, i, cell_value) ==
    IF ~Truthy(cell_value) THEN columns
    ELSE LET cell_str == Strip(PyStr(cell_value)) IN
         IF IsDayLabel(cell_str)
         THEN (IF "day" \in DOMAIN columns.basic THEN columns
               ELSE [columns EXCEPT !.basic = Put(@, "day", i)])
         ELSE IF IsPlaceLabel(cell_str)
         THEN [columns EXCEPT !.basic = Put(@, "place", i)]
         ELSE IF IsAmountLabel(cell_str)
         THEN [columns EXCEPT !.basic = Put(@, "amount", i)]
         ELSE IF IsDescriptionLabel(cell_str)
         THEN [columns EXCEPT !.basic = Put(@, "description", i)]
         ELSE IF variant \in {"preserve", "subcat"} /\ cell_str \in main_categories
         THEN [columns EXCEPT
                  !.categories = Append(@, [index |-> i, name |-> cell_str])]
         ELSE IF variant = "subcat" /\ Contains(cell_str, Breakdown)
         THEN [columns EXCEPT
                  !.subcategories = Put(@, Replace(cell_str, Breakdown), i)]
         ELSE columns

RECURSIVE FindColumnsFrom(_, _, _, _)
FindColumnsFrom(variant, header_row, i, columns) ==
    IF i >= Len(header_row) THEN columns
    ELSE FindColumnsFrom(variant, header_row, i + 1,
                         FindColumnsCell(variant, columns, i, header_row[i + 1]))

\* find_columns(header_row)
FindColumns(variant, header_row) == FindColumnsFrom(variant, header_row, 0, NoColumns)

Required == {"day", "place", "amount", "description"}

\* all(k in columns for k in ['day', 'place', 'amount', 'description'])
HasRequired(columns) == Required \subseteq DOMAIN columns.basic

(***************************************************************************)
(* extract_category, extract_category_and_subcategory                      *)
(***************************************************************************)
\* row[idx] if len(row) > idx else None
CellAt(row, idx) == IF Len(row) > idx THEN row[idx + 1] ELSE None

\* len(row) > idx and row[idx] is not None and value and str(value).strip()
Populated(row, idx) ==
    /\ Len(row) > idx
    /\ row[idx + 1].t # "none"
    /\ Truthy(row[idx + 1])
    /\ Len(Strip(PyStr(row[idx + 1]))) > 0

RECURSIVE FirstPopulated(_, _, _)
\* the position in category_columns (from k on) of the first column whose
\* cell is populated; 0 when the loop ends without a break
FirstPopulated(row, category_columns, k) ==
    IF k > Len(category_columns) THEN 0
    ELSE IF Populated(row, category_columns[k].index) THEN k
    ELSE FirstPopulated(row, category_columns, k + 1)

\* extract_category(row, category_columns)
ExtractCategory(row, category_columns) ==
    LET k == FirstPopulated(row, category_columns, 1) IN
    IF k = 0 THEN Other ELSE category_columns[k].name

\* not s.replace('.', '').replace('-', '').isdigit()
NotNumeric(s) == ~IsDigitStr(Replace(Replace(s, <<".">>), <<"-">>))

\* not s.replace('.', '').replace('-', '').replace(':', '').replace(' ', '').isdigit()
NotNumericOrDate(s) ==
    ~IsDigitStr(Replace(Replace(Replace(Replace(s, <<".">>), <<"-">>), <<":">>), <<" ">>))

\* the category cell's own text taken in preference to the breakdown column
ExtractOwnTextFirst(row, category_columns, subcategory_columns) ==
    LET k == FirstPopulated(row, category_columns, 1)
        main_category == IF k = 0 THEN Other ELSE category_columns[k].name
        cat_column_value ==
            IF k = 0 THEN <<>> ELSE Strip(PyStr(row[category_columns[k].index + 1]))
        sub2 ==
            IF main_category # Other /\ main_category \in DOMAIN subcategory_columns
               /\ Populated(row, subcategory_columns[main_category])
               /\ NotNumericOrDate(Strip(PyStr(row[subcategory_columns[main_category] + 1])))
            THEN Strip(PyStr(row[subcategory_columns[main_category] + 1]))
            ELSE <<>>
    IN [category |-> main_category,
        subcategory |-> IF k # 0 /\ Len(cat_column_value) > 0 /\ NotNumeric(cat_column_value)
                        THEN cat_column_value ELSE sub2]

\* extract_category_and_subcategory(row, category_columns, subcategory_columns)
ExtractCategoryAndSubcategory(row, category_columns, subcategory_columns) ==
    LET k == FirstPopulated(row, category_columns, 1)
        main_category == IF k = 0 THEN Other ELSE category_columns[k].name
        \* cat_column_value is None when k = 0
        cat_column_value ==
            IF k = 0 THEN <<>> ELSE Strip(PyStr(row[category_columns[k].index + 1]))
        sub1 == IF k # 0 /\ Len(cat_column_value) > 0 /\ NotNumeric(cat_column_value)
                THEN cat_column_value ELSE <<>>
        sub2 ==
            IF main_category # Other /\ main_category \in DOMAIN subcategory_columns
            THEN LET sub_idx == subcategory_columns[main_category] IN
                 IF Populated(row, sub_idx)
                    /\ NotNumericOrDate(Strip(PyStr(row[sub_idx + 1])))
                 THEN Strip(PyStr(row[sub_idx + 1]))
                 ELSE sub1
            ELSE sub1
    IN [category |-> main_category, subcategory |-> sub2]

(***************************************************************************)
(* The body of the row loop of extract_expenses                            *)
(***************************************************************************)
\* int(date.split('-')[0])
YearOfDate(date) ==
    StrNat(SubSeq(date, 1, (CHOOSE i \in 1..Len(date) :
                               date[i] = "-" /\ \A j \in 1..(i - 1) : date[j] # "-") - 1))

\* f"{year}-{month:02d}"
YearMonthKey(year, month) == IntStr(year) \o <<"-">> \o ZeroPad(IntStr(month), 2)

\* year_month.split('-')[0]
YearOfKey(year_month) ==
    SubSeq(year_month, 1, (CHOOSE i \in 1..Len(year_month) :
              year_month[i] = "-" /\ \A j \in 1..(i - 1) : year_month[j] # "-") - 1)

\* the row yields nothing: a `continue`, or an exception caught by the loop's
\* `except Exception: continue`
Skip == [ok |-> FALSE, key |-> <<>>, date |-> <<>>, category |-> <<>>,
         subcategory |-> <<>>, amount |-> 0, place |-> <<>>, description |-> <<>>]

Expense(key, date, category, subcategory, amount, place, description) ==
    [ok |-> TRUE, key |-> key, date |-> date, category |-> category,
     subcategory |-> subcategory, amount |-> amount, place |-> place,
     description |-> description]

\* the columns of the two scripts that read fixed positions
FixedDay == 3
FixedPlace == 5
FixedAmount == 6
FixedDescription == 7
FixedWidth == 8

\* the test with < in place of <=
BadAmountBelowZero(amount) == ~IsNumber(amount) \/ amount.n < 0

\* not isinstance(amount, (int, float)) or amount <= 0
BadAmount(amount) == ~IsNumber(amount) \/ NonPositive(amount)

\* convert_excel.py: a single list (key <<>>); the row is taken only when its
\* place is a non-empty str
RowExcel(sheet_name, row) ==
    IF Len(row) = 0 \/ Len(row) < FixedWidth THEN Skip
    ELSE LET day == row[FixedDay + 1]
             place == row[FixedPlace + 1]
             amount == row[FixedAmount + 1]
             description == row[FixedDescription + 1]
         IN IF BadAmount(amount) THEN Skip
            ELSE IF Truthy(place) /\ place.t = "str"
            THEN LET d == ParseDate(sheet_name, day) IN
                 IF ~d.ok THEN Skip
                 ELSE Expense(<<>>, d.date,
                              CategorizeItem("excel", place, description), <<>>,
                              PyTrunc(amount), PyStr(OrEmpty(place)),
                              PyStr(OrEmpty(description)))
            ELSE Skip

\* convert_excel_split.py
RowSplit(sheet_name, row) ==
    IF Len(row) = 0 THEN Skip
    ELSE IF Len(row) < FixedWidth THEN Skip
    ELSE LET day == row[FixedDay + 1]
             place == row[FixedPlace + 1]
             amount == row[FixedAmount + 1]
             description == row[FixedDescription + 1]
         IN IF BadAmount(amount) THEN Skip
            ELSE IF ~IsNumber(day) THEN Skip
            ELSE LET d == ParseDate(sheet_name, day) IN
                 IF ~d.ok THEN Skip
                 ELSE Expense(YearOfDate(d.date), d.date,
                              CategorizeItem("split", OrEmpty(place), description),
                              <<>>, PyTrunc(amount), PyStr(OrEmpty(place)),
                              PyStr(OrEmpty(description)))

\* str(x) whatever x is
StrAlways(c) == PyStr(c)

\* str(x) if x else ''
StrOrEmpty(c) == IF Truthy(c) THEN PyStr(c) ELSE <<>>

\* convert_excel_final.py, convert_excel_preserve_categories.py,
\* convert_excel_with_subcategories.py
RowHeaderDriven(variant, sheet_name, columns, row) ==
    IF Len(row) = 0 THEN Skip
    \* columns[k] on a missing key raises inside the try: the row is passed over
    ELSE IF ~HasRequired(columns) THEN Skip
    ELSE LET day == CellAt(row, columns.basic["day"])
             place == CellAt(row, columns.basic["place"])
             amount == CellAt(row, columns.basic["amount"])
             description == CellAt(row, columns.basic["description"])
         IN IF BadAmount(amount) THEN Skip
            ELSE IF ~IsNumber(day) THEN Skip
            ELSE LET d == ParseDate(sheet_name, day)
                     place_str == StrOrEmpty(place)
                     desc_str == StrOrEmpty(description)
                 IN IF ~d.ok THEN Skip
                    ELSE IF variant = "final"
                    THEN Expense(YearOfDate(d.date), d.date,
                                 CategorizeItem("final", PyText(place_str),
                                                PyText(desc_str)),
                                 <<>>, PyTrunc(amount), place_str, desc_str)
                    ELSE IF variant = "preserve"
                    THEN Expense(YearMonthKey(d.year, d.month), d.date,
                                 ExtractCategory(row, columns.categories),
                                 <<>>, PyTrunc(amount), place_str, desc_str)
                    ELSE LET cs == ExtractCategoryAndSubcategory(
                                       row, columns.categories, columns.subcategories)
                         IN Expense(d.year, d.date, cs.category, cs.subcategory,
                                    PyTrunc(amount), place_str, desc_str)

RowRecord(variant, sheet_name, columns, row) ==
    CASE variant = "excel" -> RowExcel(sheet_name, row)
      [] variant = "split" -> RowSplit(sheet_name, row)
      [] OTHER -> RowHeaderDriven(variant, sheet_name, columns, row)

(***************************************************************************)
(* Grouping and sorting                                                    *)
(***************************************************************************)
\* a dict of lists is a sequence of [key, recs] in insertion order
HasKey(groups, key) == \E i \in 1..Len(groups) : groups[i].key = key
KeyPos(groups, key) == CHOOSE i \in 1..Len(groups) : groups[i].key = key

\* an assignment of a new list in place of the append
GroupAppendReplace(groups, key, expense) ==
    IF HasKey(groups, key)
    THEN [groups EXCEPT ![KeyPos(groups, key)].recs = <<expense>>]
    ELSE Append(groups, [key |-> key, recs |-> <<expense>>])

\* expenses_by_year[key].append(expense) on a defaultdict(list)
GroupAppend(groups, key, expense) ==
    IF HasKey(groups, key)
    THEN [groups EXCEPT ![KeyPos(groups, key)].recs = Append(@, expense)]
    ELSE Append(groups, [key |-> key, recs |-> <<expense>>])

\* expenses_by_year[key].extend(expenses)
GroupExtend(groups, key, expenses) ==
    IF HasKey(groups, key)
    THEN [groups EXCEPT ![KeyPos(groups, key)].recs = @ \o expenses]
    ELSE Append(groups, [key |-> key, recs |-> expenses])

RECURSIVE InsertBeforeEqual(_, _)
\* one step of an unstable sort: r goes before the elements of its own date
InsertBeforeEqual(sorted, r) ==
    IF Len(sorted) = 0 THEN <<r>>
    ELSE IF ~StrLess(sorted[Len(sorted)].date, r.date)
         THEN Append(InsertBeforeEqual(SubSeq(sorted, 1, Len(sorted) - 1), r),
                     sorted[Len(sorted)])
         ELSE Append(sorted, r)

RECURSIVE InsertByDate(_, _)
\* one step of a stable sort: r goes after every element whose date is not greater
InsertByDate(sorted, r) ==
    IF Len(sorted) = 0 THEN <<r>>
    ELSE IF StrLess(r.date, sorted[Len(sorted)].date)
         THEN Append(InsertByDate(SubSeq(sorted, 1, Len(sorted) - 1), r),
                     sorted[Len(sorted)])
         ELSE Append(sorted, r)

RECURSIVE SortFrom(_, _, _)
SortFrom(recs, i, sorted) ==
    IF i > Len(recs) THEN sorted
    ELSE SortFrom(recs, i + 1, InsertByDate(sorted, recs[i]))

RECURSIVE SortUniqueFrom(_, _, _)
SortUniqueFrom(recs, i, sorted) ==
    IF i > Len(recs) THEN sorted
    ELSE SortUniqueFrom(recs, i + 1,
                        IF \E j \in 1..Len(sorted) : sorted[j].date = recs[i].date
                        THEN sorted ELSE InsertByDate(sorted, recs[i]))

\* a sort that keeps one record per date
SortByDateUnique(recs) == SortUniqueFrom(recs, 1, <<>>)

\* list.sort(key=lambda x: x['date']) and sorted(..., key=...): stable
SortByDate(recs) == SortFrom(recs, 1, <<>>)

\* for key in d: d[key].sort(key=lambda x: x['date'])
SortGroups(groups) ==
    [i \in 1..Len(groups) |-> [key |-> groups[i].key, recs |-> SortByDate(groups[i].recs)]]

RECURSIVE MergeByYear(_, _, _)
\* convert_excel_preserve_categories.main: the year-month groups, in the
\* dict's order, are concatenated per year
MergeByYear(by_year_month, i, by_year) ==
    IF i > Len(by_year_month) THEN by_year
    ELSE MergeByYear(by_year_month, i + 1,
                     GroupExtend(by_year, YearOfKey(by_year_month[i].key),
                                 by_year_month[i].recs))

\* key order of sorted(d.keys()): int keys by value, str keys by code point
KeyLess(variant, a, b) == IF variant = "preserve" THEN StrLess(a, b) ELSE a < b

RECURSIVE InsertKey(_, _, _)
InsertKey(variant, sorted, k) ==
    IF Len(sorted) = 0 THEN <<k>>
    ELSE IF KeyLess(variant, k, sorted[Len(sorted)])
         THEN Append(InsertKey(variant, SubSeq(sorted, 1, Len(sorted) - 1), k),
                     sorted[Len(sorted)])
         ELSE Append(sorted, k)

RECURSIVE SortedKeysFrom(_, _, _, _)
SortedKeysFrom(variant, groups, i, sorted) ==
    IF i > Len(groups) THEN sorted
    ELSE SortedKeysFrom(variant, groups, i + 1, InsertKey(variant, sorted, groups[i].key))

\* sorted(expenses_by_year.keys())
SortedKeys(variant, groups) == SortedKeysFrom(variant, groups, 1, <<>>)

(***************************************************************************)
(* Bounds and input domains                                                *)
(***************************************************************************)
\* Spec: sheets in the workbook, and data rows read in one run
MaxSheets == 2
MaxRows == 2
\* SpecRow: the same, over the larger domains of names, headers and rows
RowSheets == 1
RowRows == 1

\* '24.06', '24.02', '23.02', '23.12', '23.13', '8000.01', '集計'
SheetNames ==
    {<<"2", "4", ".", "0", "6">>, <<"2", "4", ".", "0", "2">>,
     <<"2", "3", ".", "0", "2">>, <<"2", "3", ".", "1", "2">>,
     <<"2", "3", ".", "1", "3">>, <<"8", "0", "0", "0", ".", "0", "1">>,
     <<"u96C6", "u8A08">>}

T(chars) == PyText(chars)

\* '月', 'タスク', 'チェック', '日', '曜日', '場所', '価格', '商品名', '食品', '日用品', '食品内訳'
HdrJa == <<T(<<"u6708">>), T(<<"u30BF", "u30B9", "u30AF">>), T(<<"u30C1", "u30A7", "u30C3", "u30AF">>),
           T(<<"u65E5">>), T(<<"u66DC", "u65E5">>), T(<<"u5834", "u6240">>), T(<<"u4FA1", "u683C">>),
           T(<<"u5546", "u54C1", "u540D">>), T(<<"u98DF", "u54C1">>), T(<<"u65E5", "u7528", "u54C1">>),
           T(<<"u98DF", "u54C1", "u5185", "u8A33">>)>>

\* 'Date', 'Task', None, 'Day', 'Weekday', 'Place', 'Price', 'Item'
HdrEn == <<T(<<"D", "a", "t", "e">>), T(<<"T", "a", "s", "k">>), None,
           T(<<"D", "a", "y">>), T(<<"W", "e", "e", "k", "d", "a", "y">>),
           T(<<"P", "l", "a", "c", "e">>), T(<<"P", "r", "i", "c", "e">>),
           T(<<"I", "t", "e", "m">>)>>

\* '月', 'タスク', 'チェック', '日', '曜日', '場所', 'メモ', '商品名': no amount column
HdrNoAmount == <<T(<<"u6708">>), T(<<"u30BF", "u30B9", "u30AF">>), T(<<"u30C1", "u30A7", "u30C3", "u30AF">>),
                 T(<<"u65E5">>), T(<<"u66DC", "u65E5">>), T(<<"u5834", "u6240">>), T(<<"u30E1", "u30E2">>),
                 T(<<"u5546", "u54C1", "u540D">>)>>

Headers == {HdrJa, HdrEn, HdrNoAmount}

\* a data row laid out as HdrJa: day at 3, place at 5, amount at 6, description
\* at 7, the category columns '食品' and '日用品' at 8 and 9, '食品内訳' at 10
MkRow(day, place, amount, description, food, daily, breakdown) ==
    <<None, None, None, day, None, place, amount, description, food, daily, breakdown>>

Aig == T(<<"A", "I", "G">>)
\* 'ジム'
Gym == T(<<"u30B8", "u30E0">>)
\* '野菜'
Vegetables == T(<<"u91CE", "u83DC">>)
\* '洗剤'
Detergent == T(<<"u6D17", "u5264">>)
Empty == T(<<>>)

\* rows that can yield a record
GoodRows ==
    {MkRow(PyInt(29), Aig, PyInt(1200), Gym, PyInt(1200), None, Vegetables),
     MkRow(PyInt(29), None, PyInt(800), None, None, Detergent, None),
     MkRow(PyInt(3), Empty, PyFloat(5), Empty, None, None, None),
     MkRow(PyFloat(309), Gym, PyFloat(12009), PyInt(0), PyInt(0), PyInt(300), None),
     MkRow(PyBool(TRUE), PyInt(7), PyBool(TRUE), Aig, None, None, None),
     \* a row that ends at its amount cell
     <<None, None, None, PyInt(3), None, Aig, PyInt(100)>>}

\* rows that fail a check
BadRows ==
    {MkRow(PyInt(29), Aig, PyInt(-500), Gym, None, None, None),
     MkRow(PyInt(29), Aig, PyInt(0), Gym, None, None, None),
     MkRow(PyInt(29), Aig, T(<<"1", "2", "0", "0">>), Gym, None, None, None),
     MkRow(PyInt(29), Aig, None, Gym, None, None, None),
     MkRow(None, Aig, PyInt(1200), Gym, None, None, None),
     MkRow(T(<<"2", "9">>), Aig, PyInt(1200), Gym, None, None, None),
     MkRow(PyInt(0), Aig, PyInt(1200), Gym, None, None, None),
     MkRow(PyInt(31), Aig, PyInt(1200), Gym, None, None, None),
     MkRow(PyInt(32), Aig, PyInt(1200), Gym, None, None, None),
     MkRow(PyFloat(5), Aig, PyInt(1200), Gym, None, None, None),
     <<>>}

Rows == GoodRows \cup BadRows

\* The domains of Spec: '24.06', '24.6' (the same month again), '24.02',
\* '23.02'; a row (which may come again, in the same sheet or another), a row
\* of an earlier day and of amount 0.5, and a row that fails
RunSheetNames ==
    {<<"2", "4", ".", "0", "6">>, <<"2", "4", ".", "6">>,
     <<"2", "4", ".", "0", "2">>, <<"2", "3", ".", "0", "2">>}

RunHeaders == {HdrJa, HdrNoAmount}

RunRows ==
    {MkRow(PyInt(29), Aig, PyInt(1200), Gym, PyInt(1200), None, Vegetables),
     MkRow(PyInt(3), Empty, PyFloat(5), Empty, None, None, None),
     MkRow(PyInt(29), Aig, PyInt(0), Gym, None, None, None)}

(***************************************************************************)
(* State                                                                   *)
(***************************************************************************)
VARIABLES
    variant,      \* which script runs
    pc,           \* "sheets": between sheets; "rows": in a sheet's row loop;
                  \* "export": main's loop over the years; "done"; "nodata";
                  \* "failed": main's except clause
    sheet_name,   \* the sheet being read
    columns,      \* find_columns' result for it
    count,        \* the per-sheet counter of the header-driven scripts
    expenses,     \* convert_excel's list
    groups,       \* expenses_by_year / expenses_by_year_month
    units,        \* the dict main exports from
    todo,         \* the years main has still to save, in order
    written,      \* the files written, in order
    total_count,  \* main's total_count
    \* what the run has read and done so far (history)
    sheetLog,     \* per sheet of the workbook: its name and what became of it
    rowsRead,     \* data rows read so far
    sheetRows,    \* the rows met so far in the sheet being read
    rowAt,        \* the sheet row number of each of them
    lastOut,      \* what the last of them yielded
    nrec,         \* records appended so far
    printed,      \* the per-sheet counts printed, summed
    wb_open,      \* the workbook that load_workbook opened is not closed yet
    \* a single call of a function (the specifications of the pure functions)
    args,
    ret

vars == <<variant, pc, sheet_name, columns, count, expenses, groups, units, todo,
          written, total_count, sheetLog, rowsRead, sheetRows, lastOut, nrec,
          printed, rowAt, wb_open, args, ret>>

runVars == <<variant, pc, sheet_name, columns, count, expenses, groups, units, todo,
             written, total_count, sheetLog, rowsRead, sheetRows, lastOut, nrec, printed,
             rowAt, wb_open>>

Idle ==
    /\ sheet_name = <<>>
    /\ columns = NoColumns
    /\ count = 0
    /\ expenses = <<>>
    /\ groups = <<>>
    /\ units = <<>>
    /\ todo = <<>>
    /\ written = <<>>
    /\ total_count = 0
    /\ sheetLog = <<>>
    /\ rowsRead = 0
    /\ sheetRows = <<>>
    /\ lastOut = Skip
    /\ nrec = 0
    /\ printed = 0
    /\ rowAt = <<>>

\* main has called extract_expenses, which has loaded the workbook
Init ==
    /\ variant \in Variants
    /\ pc = "sheets"
    /\ Idle
    /\ wb_open = TRUE
    /\ args = <<>>
    /\ ret = <<>>

(***************************************************************************)
(* extract_expenses                                                        *)
(***************************************************************************)
LoggedNames == {sheetLog[i].name : i \in 1..Len(sheetLog)}

\* a missing column ends the run
OnMissingColumnsRaise == "failed"

\* a required column is missing: a warning is printed and the loop continues
\* with the next sheet
OnMissingColumns == "sheets"

\* The next sheet of the workbook, with its first row.  A name that does not
\* match is not in month_sheets; a header-driven script skips the sheet when
\* a required column is missing.  The log keeps the first row where the
\* script reads it.
OpenSheet(name, header) ==
    /\ pc = "sheets"
    /\ name \notin LoggedNames
    /\ LET reads == variant \in HeaderDriven /\ ReMatch(name)
           cols == IF reads THEN FindColumns(variant, header) ELSE columns
           status == IF ~ReMatch(name) THEN "ignored"
                     ELSE IF reads /\ ~HasRequired(cols) THEN "skipped" ELSE "read"
       IN /\ sheetLog' = Append(sheetLog, [name |-> name, status |-> status,
                                           header |-> IF reads THEN header ELSE <<>>])
          /\ IF status = "read"
             THEN /\ pc' = "rows"
                  /\ sheet_name' = name
                  /\ columns' = cols
                  /\ count' = 0
             ELSE IF status = "skipped"
             THEN /\ pc' = OnMissingColumns
                  /\ UNCHANGED <<sheet_name, columns, count>>
             ELSE UNCHANGED <<pc, sheet_name, columns, count>>
    /\ sheetRows' = <<>>
    /\ rowAt' = <<>>
    /\ lastOut' = Skip
    /\ UNCHANGED <<variant, expenses, groups, units, todo, written, total_count,
                   rowsRead, nrec, printed, wb_open, args, ret>>

\* the record as it is kept, with where it came from (history): its number
\* in extraction order and the number of its sheet
Kept(out, id, sheet) ==
    [date |-> out.date, category |-> out.category, subcategory |-> out.subcategory,
     amount |-> out.amount, place |-> out.place, description |-> out.description,
     id |-> id, sheet |-> sheet]

\* max_row of ws.iter_rows in the scripts that give one
max_row == 1000

\* iter_rows delivers every row (no limit is given)
ScannedAll(v, idx) == TRUE

\* iter_rows(min_row=2, max_row=1000, values_only=True) delivers the sheet
\* rows 2..1000; convert_excel's iter_rows(min_row=2, values_only=True)
\* delivers every row from 2 on
Scanned(v, idx) == v = "excel" \/ idx <= max_row

\* the number of the sheet row met last; the header is row 1
row_idx == IF rowAt = <<>> THEN 1 ELSE rowAt[Len(rowAt)]

\* The sheet has `row` at sheet row idx, and only blank rows between the row
\* met last and it (a blank row fails the amount check and changes nothing).
\* The loop body runs on the row when iter_rows delivers it.
ScanRow(row, idx) ==
    /\ pc = "rows"
    /\ idx > row_idx
    /\ LET out == IF Scanned(variant, idx)
                  THEN RowRecord(variant, sheet_name, columns, row) ELSE Skip IN
       /\ lastOut' = out
       /\ IF out.ok
          THEN /\ nrec' = nrec + 1
               /\ IF variant = "excel"
                  THEN /\ expenses' = Append(expenses, Kept(out, nrec + 1, Len(sheetLog)))
                       /\ UNCHANGED groups
                  ELSE /\ groups' = GroupAppend(groups, out.key,
                                                Kept(out, nrec + 1, Len(sheetLog)))
                       /\ UNCHANGED expenses
               /\ count' = IF variant \in HeaderDriven THEN count + 1 ELSE count
          ELSE UNCHANGED <<nrec, expenses, groups, count>>
    /\ sheetRows' = Append(sheetRows, row)
    /\ rowAt' = Append(rowAt, idx)
    /\ rowsRead' = rowsRead + 1
    /\ UNCHANGED <<variant, pc, sheet_name, columns, units, todo, written,
                   total_count, sheetLog, printed, wb_open, args, ret>>

\* one pass of the row loop, on the row that follows the row met last
ProcessRow(row) == ScanRow(row, row_idx + 1)

\* the sheet's rows are exhausted
EndSheet ==
    /\ pc = "rows"
    /\ pc' = "sheets"
    /\ printed' = IF variant \in HeaderDriven THEN printed + count ELSE printed
    /\ sheetRows' = <<>>
    /\ rowAt' = <<>>
    /\ lastOut' = Skip
    /\ UNCHANGED <<variant, sheet_name, columns, count, expenses, groups, units, todo,
                   written, total_count, sheetLog, rowsRead, nrec, wb_open, args, ret>>

\* The sheets are exhausted: wb.close(), then the groups are sorted and
\* returned to main, which stops when there is no data and otherwise sets out
\* to save each year.
FinishExtraction ==
    /\ pc = "sheets"
    /\ wb_open' = FALSE
    /\ IF variant = "excel"
       THEN /\ expenses' = SortByDate(expenses)
            /\ groups' = groups
            /\ units' = IF Len(expenses) = 0 THEN <<>>
                        ELSE <<[key |-> <<>>, recs |-> expenses']>>
            /\ todo' = IF Len(expenses) = 0 THEN <<>> ELSE << <<>> >>
       ELSE /\ groups' = SortGroups(groups)
            /\ expenses' = expenses
            /\ units' = IF variant = "preserve" THEN MergeByYear(groups', 1, <<>>)
                        ELSE groups'
            /\ todo' = SortedKeys(variant, units')
    /\ pc' = IF Len(todo') = 0 THEN "nodata" ELSE "export"
    \* extract_expenses returns: its locals are gone, and the history of the
    \* reading ends with the workbook
    /\ sheet_name' = <<>>
    /\ columns' = NoColumns
    /\ count' = 0
    /\ sheetLog' = <<>>
    /\ rowsRead' = 0
    /\ UNCHANGED <<variant, written, total_count, sheetRows, lastOut, nrec, printed,
                   rowAt, args, ret>>

\* A statement of extract_expenses outside the row loop's try raises (wb[...],
\* the first row's [0] on a sheet without rows, the row iterator itself): the
\* exception leaves extract_expenses before its wb.close() and reaches main's
\* except clause.  Nothing has been written.
ExtractionRaises ==
    /\ pc \in {"sheets", "rows"}
    /\ pc' = "failed"
    \* extract_expenses and main are left: their locals are gone, and the
    \* history of the reading ends
    /\ sheet_name' = <<>>
    /\ columns' = NoColumns
    /\ count' = 0
    /\ expenses' = <<>>
    /\ groups' = <<>>
    /\ sheetLog' = <<>>
    /\ rowsRead' = 0
    /\ sheetRows' = <<>>
    /\ rowAt' = <<>>
    /\ lastOut' = Skip
    /\ nrec' = 0
    /\ printed' = 0
    /\ UNCHANGED <<variant, units, todo, written, total_count, wb_open, args, ret>>

(***************************************************************************)
(* main and save_to_csv                                                    *)
(***************************************************************************)
\* the rows main hands to save_to_csv for a year
UnitRows(year) ==
    LET recs == units[KeyPos(units, year)].recs IN
    IF variant \in {"preserve", "subcat"} THEN SortByDate(recs) ELSE recs

\* save_to_csv succeeds for the next year; after the last one main prints
\* its summary
SaveUnit ==
    /\ pc = "export"
    /\ Len(todo) > 0
    /\ written' = Append(written, [key |-> Head(todo), rows |-> UnitRows(Head(todo)),
                                   complete |-> TRUE])
    /\ total_count' = IF variant \in HeaderDriven
                      THEN total_count + Len(UnitRows(Head(todo))) ELSE total_count
    /\ todo' = Tail(todo)
    /\ pc' = IF Len(todo) = 1 THEN "done" ELSE "export"
    /\ UNCHANGED <<variant, sheet_name, columns, count, expenses, groups, units,
                   sheetLog, rowsRead, sheetRows, lastOut, nrec, printed, rowAt,
                   wb_open, args, ret>>

\* a failed write takes the files written before it away
PartialFileRollsBack(files, year, rows, n) == <<>>

\* the files after a write of the year's file has raised behind its first n
\* rows: the earlier files are not touched
PartialFile(files, year, rows, n) ==
    Append(files, [key |-> year, rows |-> SubSeq(rows, 1, n), complete |-> FALSE])

\* open() or a write raises: the exception reaches main's except clause,
\* which prints it.  The file is absent (open failed) or holds the first n
\* rows.  The years that follow are not saved.
SaveFails ==
    /\ pc = "export"
    /\ Len(todo) > 0
    /\ \/ written' = written
       \/ \E n \in 0..Len(UnitRows(Head(todo))) :
            written' = PartialFile(written, Head(todo), UnitRows(Head(todo)), n)
    /\ pc' = "failed"
    \* main returns from its except clause: its locals are gone
    /\ expenses' = <<>>
    /\ groups' = <<>>
    /\ units' = <<>>
    /\ todo' = <<>>
    /\ UNCHANGED <<variant, sheet_name, columns, count, total_count, sheetLog,
                   rowsRead, sheetRows, lastOut, nrec, printed, rowAt, wb_open,
                   args, ret>>

ReadSheets(names, headers, limit) ==
    \E name \in names, header \in headers :
        Len(sheetLog) < limit /\ OpenSheet(name, header)

ReadRows(rows, limit) ==
    \E row \in rows : rowsRead < limit /\ ProcessRow(row)

\* runs over a few sheets and rows
Next ==
    \/ ReadSheets(RunSheetNames, RunHeaders, MaxSheets)
    \/ ReadRows(RunRows, MaxRows)
    \/ EndSheet
    \/ FinishExtraction
    \/ ExtractionRaises
    \/ SaveUnit
    \/ SaveFails

Spec == Init /\ [][Next]_vars

\* runs over the larger domains of names, headers and rows
NextRow ==
    \/ ReadSheets(SheetNames, Headers, RowSheets)
    \/ ReadRows(Rows, RowRows)
    \/ EndSheet
    \/ FinishExtraction
    \/ ExtractionRaises
    \/ SaveUnit
    \/ SaveFails

SpecRow == Init /\ [][NextRow]_vars


(***************************************************************************)
(* categorize_item on its own                                              *)
(***************************************************************************)
\* None, '', 'AIG損保', 'Netflix', '東京ガス', 'ジム', 'ETCカード', '薬局',
\* 'スーパー', '駅ナカ'
PlaceValues ==
    {None, Empty, T(<<"A", "I", "G", "u640D", "u4FDD">>),
     T(<<"N", "e", "t", "f", "l", "i", "x">>), T(<<"u6771", "u4EAC", "u30AC", "u30B9">>), Gym,
     T(<<"E", "T", "C", "u30AB", "u30FC", "u30C9">>), T(<<"u85AC", "u5C40">>),
     T(<<"u30B9", "u30FC", "u30D1", "u30FC">>), T(<<"u99C5", "u30CA", "u30AB">>)}

\* None, 0, 120, '保険', 'バス代', '映画', '電気代', 'ネット代', 'Loan', '野菜',
\* 'ドコモ', 'ネオファースト'
DescriptionValues ==
    {None, PyInt(0), PyInt(120), T(<<"u4FDD", "u967A">>), T(<<"u30D0", "u30B9", "u4EE3">>),
     T(<<"u6620", "u753B">>), T(<<"u96FB", "u6C17", "u4EE3">>), T(<<"u30CD", "u30C3", "u30C8", "u4EE3">>),
     T(<<"L", "o", "a", "n">>), Vegetables, T(<<"u30C9", "u30B3", "u30E2">>),
     T(<<"u30CD", "u30AA", "u30D5", "u30A1", "u30FC", "u30B9", "u30C8">>)}

InitCategorize ==
    /\ variant \in KeywordVariants
    /\ pc = "call"
    /\ Idle
    /\ wb_open = FALSE
    /\ args \in [place : PlaceValues, description : DescriptionValues]
    /\ ret = <<>>

\* category = categorize_item(place, description)
CallCategorize ==
    /\ pc = "call"
    /\ DOMAIN args = {"place", "description"}
    /\ ret' = CategorizeItem(variant, args.place, args.description)
    /\ pc' = "return"
    /\ UNCHANGED <<variant, sheet_name, columns, count, expenses, groups, units, todo,
                   written, total_count, sheetLog, rowsRead, sheetRows, lastOut, nrec,
                   printed, rowAt, wb_open, args>>

NextCategorize == CallCategorize

SpecCategorize == InitCategorize /\ [][NextCategorize]_vars

(***************************************************************************)
(* extract_category and extract_category_and_subcategory on their own      *)
(***************************************************************************)
StructuredVariants == {"preserve", "subcat"}

\* '月', 'タスク', 'チェック', '日', '曜日', '場所', '価格', '商品名', '食品', '日用品', '日用品内訳'
HdrDaily == <<T(<<"u6708">>), T(<<"u30BF", "u30B9", "u30AF">>), T(<<"u30C1", "u30A7", "u30C3", "u30AF">>),
              T(<<"u65E5">>), T(<<"u66DC", "u65E5">>), T(<<"u5834", "u6240">>), T(<<"u4FA1", "u683C">>),
              T(<<"u5546", "u54C1", "u540D">>), T(<<"u98DF", "u54C1">>), T(<<"u65E5", "u7528", "u54C1">>),
              T(<<"u65E5", "u7528", "u54C1", "u5185", "u8A33">>)>>

CategoryHeaders == {HdrJa, HdrDaily, HdrEn}

\* None, '', '  ', 0, False, 1200, '野菜', ' 12.5 ', True
FoodCells ==
    {None, Empty, T(<<" ", " ">>), PyInt(0), PyBool(FALSE), PyInt(1200), Vegetables,
     T(<<" ", "1", "2", ".", "5", " ">>), PyBool(TRUE)}

\* None, 300, '洗剤'
DailyCells == {None, PyInt(300), Detergent}

\* None, ' ', ' 肉 ', '12:30', '1.5', 5, '-', False
BreakdownCells ==
    {None, T(<<" ">>), T(<<" ", "u8089", " ">>), T(<<"1", "2", ":", "3", "0">>),
     T(<<"1", ".", "5">>), PyInt(5), T(<<"-">>), PyBool(FALSE)}

\* rows laid out as HdrJa, and rows that end before or at the category columns
CategoryRows ==
    {MkRow(PyInt(29), Aig, PyInt(1200), Gym, f, d, b) :
        f \in FoodCells, d \in DailyCells, b \in BreakdownCells}
    \cup {<<None, None, None, PyInt(3), None, Aig, PyInt(100)>>,
          <<None, None, None, PyInt(3), None, Aig, PyInt(100), Gym, Vegetables>>,
          <<None, None, None, PyInt(3), None, Aig, PyInt(100), Gym, None, Detergent>>}

InitCategory ==
    /\ variant \in StructuredVariants
    /\ pc = "call"
    /\ Idle
    /\ wb_open = FALSE
    /\ args \in [header : CategoryHeaders, row : CategoryRows]
    /\ ret = <<>>

\* columns = find_columns(header), then the row's category (and subcategory)
CallCategory ==
    /\ pc = "call"
    /\ DOMAIN args = {"header", "row"}
    /\ LET cols == FindColumns(variant, args.header) IN
       ret' = IF variant = "preserve"
              THEN [category |-> ExtractCategory(args.row, cols.categories),
                    subcategory |-> <<>>]
              ELSE ExtractCategoryAndSubcategory(args.row, cols.categories,
                                                 cols.subcategories)
    /\ pc' = "return"
    /\ UNCHANGED <<variant, sheet_name, columns, count, expenses, groups, units, todo,
                   written, total_count, sheetLog, rowsRead, sheetRows, lastOut, nrec,
                   printed, rowAt, wb_open, args>>

NextCategory == CallCategory

SpecCategory == InitCategory /\ [][NextCategory]_vars


(***************************************************************************)
(* Properties of the keyword classification                                *)
(***************************************************************************)
\* the keyword groups in the order categorize_item tests them
KeywordGroups(v) ==
    <<[words |-> LoanWords(v), label |-> FixedCost],
      [words |-> TelecomWords(v), label |-> FixedCost],
      [words |-> UtilityWords, label |-> Utilities],
      [words |-> LeisureWords, label |-> Leisure],
      [words |-> TransportWords(v), label |-> Transport],
      [words |-> MedicalWords, label |-> Medical]>>

\* the groups one of whose keywords occurs in the lowercased text of the call
MatchingGroups ==
    {g \in 1..Len(KeywordGroups(variant)) :
        \E w \in KeywordGroups(variant)[g].words :
            Contains(CategorizeText(args.place, args.description), w)}

Categorized == pc = "return" /\ DOMAIN args = {"place", "description"}

Least(S) == CHOOSE x \in S : \A y \in S : x <= y

\* C5: categorize_item returns the label of the first group, in the order
\* fixed-cost, communications, utilities, leisure, transportation, medical,
\* one of whose keywords occurs in the lowercased "place description" text;
\* it returns the food label exactly when no group matches; a text with a
\* fixed-cost keyword is fixed-cost whatever else it contains.
C5_FirstGroupWins ==
    Categorized =>
        /\ MatchingGroups # {} =>
               ret = KeywordGroups(variant)[Least(MatchingGroups)].label
        /\ (ret = Food) <=> (MatchingGroups = {})
        /\ 1 \in MatchingGroups => ret = FixedCost

\* a text with a fixed-cost keyword and keywords of two later groups
C5_Witness ==
    /\ Categorized
    /\ 1 \in MatchingGroups
    /\ Cardinality(MatchingGroups \ {1, 2}) >= 1
    /\ ret = FixedCost

(***************************************************************************)
(* Properties of the classification by category columns                    *)
(***************************************************************************)
Extracted == pc = "return" /\ DOMAIN args = {"header", "row"}

\* the category and subcategory columns find_columns registers for the header
CategoryColumns == FindColumns(variant, args.header).categories
SubcategoryColumns == FindColumns(variant, args.header).subcategories

\* the cell holds a value other than null, the empty text or whitespace only
NonBlank(row, idx) ==
    /\ Len(row) > idx
    /\ row[idx + 1].t # "none"
    /\ ~(row[idx + 1].t = "str" /\ Len(Strip(row[idx + 1].s)) = 0)

NonBlankColumns ==
    {k \in 1..Len(CategoryColumns) : NonBlank(args.row, CategoryColumns[k].index)}

\* C6: the main category is the label of the lowest-index registered category
\* column whose cell is non-blank (any value other than null, the empty text
\* or whitespace-only text), whatever later category columns hold; with no
\* such column it is the default label 'その他'.
C6_FirstNonBlankColumn ==
    Extracted =>
        ret.category = IF NonBlankColumns = {} THEN Other
                       ELSE CategoryColumns[Least(NonBlankColumns)].name

\* the column whose cell decided the main category, 0 for the default
ResolvedColumn == FirstPopulated(args.row, CategoryColumns, 1)

\* the text of a cell, trimmed
Trimmed(row, idx) == Strip(PyStr(CellAt(row, idx)))

HasBreakdown == ret.category \in DOMAIN SubcategoryColumns

BreakdownIndex == SubcategoryColumns[ret.category]

\* digits only
PurelyNumeric(s) == Len(s) > 0 /\ \A i \in 1..Len(s) : s[i] \in DigitSet

Without(s, chars) == SelectSeq(s, LAMBDA c : c \notin chars)

\* the breakdown column of the resolved category exists and its cell is
\* non-blank and not purely numeric (a number: digits, with '.' and '-')
BreakdownUsable ==
    /\ ResolvedColumn # 0
    /\ HasBreakdown
    /\ NonBlank(args.row, BreakdownIndex)
    /\ ~PurelyNumeric(Without(Trimmed(args.row, BreakdownIndex), {".", "-"}))

\* C7 as stated: the subcategory is the trimmed value of the breakdown column
\* registered for the resolved main category when that column exists and its
\* cell is non-blank and not purely numeric; in every other case it is the
\* empty string.
C7_BreakdownOrEmpty ==
    (Extracted /\ variant = "subcat") =>
        ret.subcategory = IF BreakdownUsable THEN Trimmed(args.row, BreakdownIndex)
                          ELSE <<>>

\* the breakdown cell is non-blank and not the boolean False, and its trimmed
\* text is not made of digits once '.', '-', ':' and blanks are taken out
BreakdownTaken ==
    /\ ResolvedColumn # 0
    /\ HasBreakdown
    /\ NonBlank(args.row, BreakdownIndex)
    /\ CellAt(args.row, BreakdownIndex) # PyBool(FALSE)
    /\ ~PurelyNumeric(Without(Trimmed(args.row, BreakdownIndex), {".", "-", ":", " "}))

\* the trimmed text of the category column's own cell, unless it is made of
\* digits once '.' and '-' are taken out
OwnText ==
    IF ResolvedColumn = 0 THEN <<>>
    ELSE LET own == Trimmed(args.row, CategoryColumns[ResolvedColumn].index) IN
         IF PurelyNumeric(Without(own, {".", "-"})) THEN <<>> ELSE own

\* C7, amended: the subcategory is the trimmed value of the breakdown column
\* of the resolved main category when that column exists and its cell is
\* taken (see BreakdownTaken); otherwise it is the trimmed text of the
\* category column's own cell when that text is not numeric, and the empty
\* string when it is numeric or the category is the default.
C7_BreakdownOrOwnText ==
    (Extracted /\ variant = "subcat") =>
        ret.subcategory = IF BreakdownTaken THEN Trimmed(args.row, BreakdownIndex)
                          ELSE OwnText

\* a row whose category cell holds text and whose breakdown cell is not
\* taken: the subcategory is the category cell's text
C7_Witness ==
    /\ Extracted
    /\ variant = "subcat"
    /\ HasBreakdown
    /\ ~BreakdownTaken
    /\ ret.subcategory # <<>>
    /\ ret.subcategory = OwnText


(***************************************************************************)
(* Properties of the row loop                                              *)
(***************************************************************************)
\* the lists records are kept in: convert_excel's list, or the groups
Kepts == IF variant = "excel" THEN <<[key |-> <<>>, recs |-> expenses]>> ELSE groups

KeptAt == {p \in (1..Len(Kepts)) \X (1..(nrec + 1)) : p[2] <= Len(Kepts[p[1]].recs)}

KeptRecord(p) == Kepts[p[1]].recs[p[2]]

\* how many records are kept from the n-th sheet of the workbook
KeptFrom(n) == Cardinality({p \in KeptAt : KeptRecord(p).sheet = n})

InSheet == pc = "rows"

AfterRow == pc = "rows" /\ Len(sheetRows) > 0

LastRow == sheetRows[Len(sheetRows)]

\* the cells the running script reads from a row; a cell the row does not
\* reach is null
DayCell(row) ==
    CellAt(row, IF variant \in HeaderDriven THEN columns.basic["day"] ELSE FixedDay)
PlaceCell(row) ==
    CellAt(row, IF variant \in HeaderDriven THEN columns.basic["place"] ELSE FixedPlace)
AmountCell(row) ==
    CellAt(row, IF variant \in HeaderDriven THEN columns.basic["amount"] ELSE FixedAmount)
DescriptionCell(row) ==
    CellAt(row, IF variant \in HeaderDriven THEN columns.basic["description"]
                ELSE FixedDescription)

\* a number as Python has it: an int, a float, or a bool (which is an int)
Numeric(c) == c.t \in {"int", "float", "bool"}

\* the number without its fraction
Truncated(c) == IF c.t = "float" THEN (IF c.n < 0 THEN -((-c.n) \div 10) ELSE c.n \div 10)
                ELSE c.n

LastDayOfMonth(y, m) ==
    CASE m \in {1, 3, 5, 7, 8, 10, 12} -> 31
      [] m \in {4, 6, 9, 11} -> 30
      [] OTHER -> IF (y % 4 = 0 /\ y % 100 # 0) \/ y % 400 = 0 THEN 29 ELSE 28

\* a date of the calendar (years 1 to 9999, as datetime has them)
RealDate(y, m, d) == y \in 1..9999 /\ m \in 1..12 /\ d \in 1..LastDayOfMonth(y, m)

\* the year and month the name of a sheet stands for
NameYear(name) == 2000 + YearShort(name)
NameMonth(name) == SheetMonth(name)

AmountValid(row) == Numeric(AmountCell(row)) /\ AmountCell(row).n > 0

DayValid(row) == Numeric(DayCell(row)) /\ Truncated(DayCell(row)) \in 1..31

DateValid(row) ==
    /\ DayValid(row)
    /\ RealDate(NameYear(sheet_name), NameMonth(sheet_name), Truncated(DayCell(row)))

RowValid(row) == AmountValid(row) /\ DateValid(row)

Stored == {KeptRecord(p) : p \in KeptAt}
Exported == UNION {{written[u].rows[i] : i \in 1..Len(written[u].rows)} :
                      u \in 1..Len(written)}

\* C2: every record placed in a group, and every record exported, has an
\* amount above 0.
C2_AmountAboveZero == \A r \in Stored \cup Exported : r.amount > 0

\* YYYY-MM-DD
WellFormedDate(d) ==
    /\ Len(d) = 10
    /\ d[5] = "-"
    /\ d[8] = "-"
    /\ \A i \in {1, 2, 3, 4, 6, 7, 9, 10} : d[i] \in DigitSet

DateYear(d) == StrNat(SubSeq(d, 1, 4))
DateMonth(d) == StrNat(SubSeq(d, 6, 7))
DateDay(d) == StrNat(SubSeq(d, 9, 10))

\* the date is well formed and is the day d of the year and month the sheet
\* name stands for
DateOfSheet(date, name, d) ==
    /\ WellFormedDate(date)
    /\ DateYear(date) = NameYear(name)
    /\ DateMonth(date) = NameMonth(name)
    /\ DateDay(date) = d
    /\ RealDate(DateYear(date), DateMonth(date), DateDay(date))

\* C3: every record's date is a well-formed YYYY-MM-DD string of a real
\* date whose year is 2000 + YY and whose month is MM, for the name YY.MM of
\* the sheet the row came from, and whose day is the truncated day cell, in
\* 1..last day of that month; a row whose year, month and day are not a real
\* date yields no record.
C3_DateOfSheetAndDay ==
    /\ pc \in {"sheets", "rows"} =>
           \A r \in Stored : DateOfSheet(r.date, sheetLog[r.sheet].name, DateDay(r.date))
    /\ AfterRow =>
           /\ lastOut.ok => /\ Numeric(DayCell(LastRow))
                            /\ DateOfSheet(lastOut.date, sheet_name,
                                           Truncated(DayCell(LastRow)))
           /\ ~DateValid(LastRow) => ~lastOut.ok

\* a row of day 31 in a month of 31 days has yielded a record
C3_Witness ==
    /\ AfterRow
    /\ lastOut.ok
    /\ DayCell(LastRow) = PyInt(31)
    /\ DateDay(lastOut.date) = 31
    /\ \E r \in Stored : r.date = lastOut.date

\* null or the empty text
BlankCell(c) == c = None \/ c = Empty

BlankStored(row) ==
    /\ BlankCell(PlaceCell(row)) => lastOut.place = <<>>
    /\ BlankCell(DescriptionCell(row)) => lastOut.description = <<>>

TakenWhenValid(row) ==
    \/ variant \in HeaderDriven
    \/ variant = "split" /\ Len(row) >= FixedWidth
    \/ /\ variant = "excel"
       /\ Len(row) >= FixedWidth
       /\ PlaceCell(row).t = "str"
       /\ PlaceCell(row) # Empty

Unresolved(n) ==
    /\ variant \in HeaderDriven
    /\ ReMatch(sheetLog[n].name)
    /\ ~({"day", "place", "amount", "description"}
            \subseteq DOMAIN FindColumns(variant, sheetLog[n].header).basic)

\* what holds of an unresolved sheet, the n-th of the workbook: no record is
\* kept from it, the run is still reading, right after it the loop stands
\* between sheets, and the sheet being read after it has kept a record for
\* each of its valid rows
SkippedAndRunGoesOn(n) ==
    /\ KeptFrom(n) = 0
    /\ pc \in {"sheets", "rows"}
    /\ n = Len(sheetLog) => pc = "sheets"
    /\ n < Len(sheetLog) /\ pc = "rows" =>
           KeptFrom(Len(sheetLog)) =
               Cardinality({i \in 1..Len(sheetRows) : RowValid(sheetRows[i])})

\* C4: in the header-driven scripts a monthly sheet whose header row does
\* not resolve day, place, amount and description contributes no record; the
\* run goes on: it stands between sheets right after such a sheet, and a
\* sheet read after it has a record from each of its valid rows.
C4_UnresolvedSheetSkipped ==
    \A n \in 1..Len(sheetLog) : SkippedAndRunGoesOn(n) \/ ~Unresolved(n)

\* the sheet after an unresolved one has yielded a record
C4_Witness ==
    /\ Len(sheetLog) = 2
    /\ Unresolved(1)
    /\ pc = "rows"
    /\ lastOut.ok
    /\ KeptFrom(1) = 0
    /\ KeptFrom(2) >= 1

\* a date as a number that grows with the calendar
DateNumber(d) == DateYear(d) * 10000 + DateMonth(d) * 100 + DateDay(d)

\* C8: in every file the records are in non-decreasing date order, and two
\* records of the same date are in the order in which they were extracted
\* (sheet order, then row order); also in convert_excel_preserve_categories,
\* which sorts the year-month groups, concatenates them per year and sorts
\* again.
C8_WrittenInDateOrder ==
    \A u \in 1..Len(written) :
        \A i, j \in 1..Len(written[u].rows) :
            i < j =>
                /\ DateNumber(written[u].rows[i].date) <= DateNumber(written[u].rows[j].date)
                /\ written[u].rows[i].date = written[u].rows[j].date =>
                       written[u].rows[i].id < written[u].rows[j].id

\* a file of convert_excel_preserve_categories with two records of one date
\* that came from two sheets
C8_Witness ==
    /\ variant = "preserve"
    /\ \E u \in 1..Len(written) :
          /\ written[u].complete
          /\ Len(written[u].rows) = 2
          /\ written[u].rows[1].date = written[u].rows[2].date
          /\ written[u].rows[1].sheet # written[u].rows[2].sheet

\* the key of the group a record of this date belongs to
KeyOfDate(d) == IF variant = "preserve" THEN SubSeq(d, 1, 7) ELSE DateYear(d)

RECURSIVE WrittenCount(_)
WrittenCount(u) == IF u = 0 THEN 0 ELSE Len(written[u].rows) + WrittenCount(u - 1)

\* C9: every accepted record is in exactly one group, whose key is the year
\* (or year-month) of the record's date; when the run is done the record
\* counts of the files add up to the number of accepted rows, which is the
\* sum of the per-sheet counts and the total of the summary.
C9_GroupedOnceAndCounted ==
    /\ pc \in {"sheets", "rows", "export", "done", "nodata"} =>
           /\ Cardinality(KeptAt) = nrec
           /\ \A k \in 1..nrec : Cardinality({p \in KeptAt : KeptRecord(p).id = k}) = 1
           /\ \A a, b \in 1..Len(groups) : groups[a].key = groups[b].key => a = b
           /\ \A a \in 1..Len(groups) : \A i \in 1..Len(groups[a].recs) :
                  groups[a].key = KeyOfDate(groups[a].recs[i].date)
    /\ pc = "done" =>
           /\ WrittenCount(Len(written)) = nrec
           /\ variant \in HeaderDriven => (printed = nrec /\ total_count = nrec)

\* a run that is done with two files, two records accepted
C9_Witness ==
    /\ pc = "done"
    /\ variant \in HeaderDriven
    /\ Len(written) = 2
    /\ nrec = 2
    /\ total_count = 2


(***************************************************************************)
(* Which sheets and which rows are scanned                                 *)
(***************************************************************************)
ScanSheets == 2
ScanLimit == 2

\* '24.06', '24.06集計', '集計', '2406', '24.', 'v24.06'
ScanSheetNames ==
    {<<"2", "4", ".", "0", "6">>, <<"2", "4", ".", "0", "6", "u96C6", "u8A08">>,
     <<"u96C6", "u8A08">>, <<"2", "4", "0", "6">>, <<"2", "4", ".">>,
     <<"v", "2", "4", ".", "0", "6">>}

ScanHeaders == {HdrJa}

\* a row that passes every check, and a row of amount 0
ScanRowSet ==
    {MkRow(PyInt(29), Aig, PyInt(1200), Gym, PyInt(1200), None, Vegetables),
     MkRow(PyInt(29), Aig, PyInt(0), Gym, None, None, None)}

\* the sheet rows where the sheets of this specification have their data
ScanPositions == {2, 3, max_row, max_row + 1, max_row + 2}

ScanRows(rows, positions, limit) ==
    \E row \in rows, idx \in positions : rowsRead < limit /\ ScanRow(row, idx)

NextScan ==
    \/ ReadSheets(ScanSheetNames, ScanHeaders, ScanSheets)
    \/ ScanRows(ScanRowSet, ScanPositions, ScanLimit)
    \/ EndSheet
    \/ FinishExtraction
    \/ ExtractionRaises
    \/ SaveUnit
    \/ SaveFails

SpecScan == Init /\ [][NextScan]_vars

\* the name is digits, a dot, digits, and nothing else
ExactMonthName(name) ==
    LET a == DigitRun(name) IN
    /\ a >= 1
    /\ Len(name) > a + 1
    /\ name[a + 1] = "."
    /\ DigitRun(SubSeq(name, a + 2, Len(name))) = Len(name) - (a + 1)

\* C11: only a sheet whose name is digits, a dot, digits is read; a sheet of
\* any other name is never read and no record comes from it.
C11_OnlyExactNamesRead ==
    \A n \in 1..Len(sheetLog) :
        ExactMonthName(sheetLog[n].name)
        \/ (sheetLog[n].status = "ignored" /\ KeptFrom(n) = 0)

\* what the scripts do: a sheet is left out exactly when its name does not
\* begin with digits, a dot, digits, and then no record comes from it
C11_UnmatchedNamesIgnored ==
    \A n \in 1..Len(sheetLog) :
        /\ sheetLog[n].status = "ignored" <=> ~ReMatch(sheetLog[n].name)
        /\ sheetLog[n].status = "ignored" => KeptFrom(n) = 0


\* the files already written are still there, each exactly as it was written
EarlierFilesKept ==
    /\ Len(written') >= Len(written)
    /\ SubSeq(written', 1, Len(written)) = written

\* a save has just failed
SaveFailed == pc = "export" /\ pc' = "failed"

\* C12: when the write of one year's file fails, the failure reaches main's
\* except clause and ends the run; nothing is rolled back: the files of the
\* years completed before it stay exactly as written, each whole, and the one
\* file that may be left incomplete is the failing year's.  No step of a run
\* ever removes or alters a file written earlier.
C12_FailedWriteKeepsEarlierFiles ==
    [][/\ EarlierFilesKept
       /\ pc # "failed"
       /\ SaveFailed =>
            /\ \A i \in 1..Len(written) : written[i].complete
            /\ Len(written') <= Len(written) + 1
            /\ \A i \in (Len(written) + 1)..Len(written') :
                 /\ written'[i].key = Head(todo)
                 /\ ~written'[i].complete]_vars

\* a year's file was written whole, then the write of the next year's file
\* failed part-way
C12_Witness ==
    /\ pc = "failed"
    /\ Len(written) = 2
    /\ written[1].complete
    /\ Len(written[1].rows) > 0
    /\ ~written[2].complete


\* the run is over: main has returned
Terminated == pc \in {"done", "nodata", "failed"}

\* C13: on every path out of a run, also when an error ends the extraction
\* or a write early, the workbook that was opened has been closed.  (The
\* output file of save_to_csv is opened by a with statement inside one step,
\* SaveUnit or SaveFails, and is closed when the step is over.)
C13_WorkbookClosedAtExit == Terminated => ~wb_open

\* what the scripts do: the workbook is closed on every path on which
\* extract_expenses returns
C13_WorkbookClosedOnReturn == pc \in {"export", "done", "nodata"} => ~wb_open


\* the amount cell holds a number above 0 and below 1
FractionBelowOne(row) ==
    /\ AmountCell(row).t = "float"
    /\ AmountCell(row).n > 0
    /\ AmountCell(row).n < 10

\* C14: the stored amount is the amount cell without its fraction (cut, never
\* rounded), and the test for an amount above 0 is made on the cell as it is:
\* a row of amount -500 or 0 yields no record, and a row whose amount is a
\* fraction between 0 and 1, with a valid day and date, yields a record of
\* amount 0.
C14_AmountTruncatedAfterCheck ==
    AfterRow =>
        /\ lastOut.ok =>
             /\ AmountCell(LastRow).n > 0
             /\ lastOut.amount = Truncated(AmountCell(LastRow))
        /\ Numeric(AmountCell(LastRow)) /\ AmountCell(LastRow).n <= 0 => ~lastOut.ok
        /\ FractionBelowOne(LastRow) /\ DateValid(LastRow) /\ TakenWhenValid(LastRow) =>
             /\ lastOut.ok
             /\ lastOut.amount = 0

\* a row of amount 0.5 has yielded a record of amount 0
C14_Witness ==
    /\ AfterRow
    /\ AmountCell(LastRow) = PyFloat(5)
    /\ lastOut.ok
    /\ lastOut.amount = 0
    /\ \E r \in Stored : r.amount = 0


(***************************************************************************)
(* find_columns on its own                                                 *)
(***************************************************************************)
HeaderLen == 3

\* '日', ' Day ', 'Weekday', 'Place of day', '場所', 'Item price', '商品内訳',
\* '食品', '食品内訳', 'メモ', None
LabelCells ==
    {T(<<"u65E5">>), T(<<" ", "D", "a", "y", " ">>),
     T(<<"W", "e", "e", "k", "d", "a", "y">>),
     T(<<"P", "l", "a", "c", "e", " ", "o", "f", " ", "d", "a", "y">>),
     T(<<"u5834", "u6240">>),
     T(<<"I", "t", "e", "m", " ", "p", "r", "i", "c", "e">>),
     T(<<"u5546", "u54C1", "u5185", "u8A33">>), T(<<"u98DF", "u54C1">>),
     T(<<"u98DF", "u54C1", "u5185", "u8A33">>), T(<<"u30E1", "u30E2">>), None}

\* header rows of HeaderLen cells
ColumnHeaders == [1..HeaderLen -> LabelCells]

InitColumns ==
    /\ variant \in HeaderDriven
    /\ pc = "call"
    /\ Idle
    /\ wb_open = FALSE
    /\ args \in [header : ColumnHeaders]
    /\ ret = <<>>

\* columns = find_columns(header)
CallColumns ==
    /\ pc = "call"
    /\ DOMAIN args = {"header"}
    /\ ret' = FindColumns(variant, args.header)
    /\ pc' = "return"
    /\ UNCHANGED <<variant, sheet_name, columns, count, expenses, groups, units, todo,
                   written, total_count, sheetLog, rowsRead, sheetRows, lastOut, nrec,
                   printed, rowAt, wb_open, args>>

NextColumns == CallColumns

SpecColumns == InitColumns /\ [][NextColumns]_vars

\* find_columns has returned the Column Map of a header row
Resolved == pc = "return" /\ DOMAIN args = {"header"}

\* the header cell of index i (from 0), and its trimmed label
HeaderCell(i) == args.header[i + 1]
Label(i) == Strip(PyStr(HeaderCell(i)))
HeaderIndexes == 0..(Len(args.header) - 1)

\* the first rule the cell matches, in the order day, place, amount,
\* description, main-category name, subcategory marker
RuleOf(i) ==
    IF ~Truthy(HeaderCell(i)) THEN "none"
    ELSE IF IsDayLabel(Label(i)) THEN "day"
    ELSE IF IsPlaceLabel(Label(i)) THEN "place"
    ELSE IF IsAmountLabel(Label(i)) THEN "amount"
    ELSE IF IsDescriptionLabel(Label(i)) THEN "description"
    ELSE IF Label(i) \in main_categories THEN "category"
    ELSE IF Contains(Label(i), Breakdown) THEN "subcategory"
    ELSE "none"

\* every rule the cell matches
RulesMatched(i) ==
    IF ~Truthy(HeaderCell(i)) THEN {}
    ELSE {r \in {"day", "place", "amount", "description", "category", "subcategory"} :
            \/ r = "day" /\ IsDayLabel(Label(i))
            \/ r = "place" /\ IsPlaceLabel(Label(i))
            \/ r = "amount" /\ IsAmountLabel(Label(i))
            \/ r = "description" /\ IsDescriptionLabel(Label(i))
            \/ r = "category" /\ Label(i) \in main_categories
            \/ r = "subcategory" /\ Contains(Label(i), Breakdown)}

\* the rules the script's find_columns has
RulesOf(v) ==
    {"day", "place", "amount", "description"}
        \cup (IF v \in {"preserve", "subcat"} THEN {"category"} ELSE {})
        \cup (IF v = "subcat" THEN {"subcategory"} ELSE {})

\* the field a rule registers the cell under
FieldOf(i, rule) ==
    CASE rule = "category" -> <<"category", Label(i)>>
      [] rule = "subcategory" -> <<"subcategory", Replace(Label(i), Breakdown)>>
      [] OTHER -> <<"basic", rule>>

\* the fields of the Column Map that hold index i
RegisteredAt(i) ==
    {<<"basic", k>> : k \in {k \in DOMAIN ret.basic : ret.basic[k] = i}}
        \cup {<<"category", ret.categories[j].name>> :
                j \in {j \in 1..Len(ret.categories) : ret.categories[j].index = i}}
        \cup {<<"subcategory", k>> :
                k \in {k \in DOMAIN ret.subcategories : ret.subcategories[k] = i}}

\* the first rule and its field, cell by cell
Rules == [i \in HeaderIndexes |-> RuleOf(i)]
Fields == [i \in HeaderIndexes |-> FieldOf(i, RuleOf(i))]

\* another cell has the field instead: an earlier cell the day, a later cell
\* any other field of a single index
Superseded(rule, field, i) ==
    \/ rule[i] = "day" /\ \E j \in HeaderIndexes : j < i /\ rule[j] = "day"
    \/ /\ rule[i] \in {"place", "amount", "description", "subcategory"}
       /\ \E j \in HeaderIndexes : j > i /\ field[j] = field[i]

\* C15: find_columns registers each header cell under at most one field, the
\* field of the first rule the cell matches in the order day, place, amount,
\* description, main-category name (equal to a member of the fixed list),
\* subcategory marker (key: the label without the marker); a cell that matches
\* an earlier rule is never registered under a later one, and a blank cell or
\* a cell that matches no rule of the script is registered nowhere.
C15_FirstMatchingRuleOnly ==
    Resolved =>
        LET rule == Rules
            field == Fields
        IN /\ \A i \in HeaderIndexes :
                /\ Cardinality(RegisteredAt(i)) <= 1
                /\ RegisteredAt(i) \subseteq
                     (IF rule[i] \in RulesOf(variant) THEN {field[i]} ELSE {})
                /\ rule[i] \in RulesOf(variant) /\ ~Superseded(rule, field, i) =>
                     RegisteredAt(i) = {field[i]}
           /\ Len(ret.categories) =
                Cardinality({j \in HeaderIndexes : rule[j] = "category"
                                                   /\ "category" \in RulesOf(variant)})

\* a cell that matches two rules is registered under the first of them only
C15_Witness ==
    /\ Resolved
    /\ \E i \in HeaderIndexes :
         /\ RulesMatched(i) = {"description", "subcategory"}
         /\ RulesMatched(i) \subseteq RulesOf(variant)
         /\ RegisteredAt(i) = {<<"basic", "description">>}
    /\ \E i \in HeaderIndexes :
         /\ RulesMatched(i) = {"day", "place"}
         /\ RegisteredAt(i) = {<<"basic", "day">>}


\* the header cells that match the day rule
DayCells == {i \in HeaderIndexes : RuleOf(i) = "day"}

First(cells) == CHOOSE i \in cells : \A j \in cells : i <= j

FirstDayCell == First(DayCells)

\* C16: when several header cells match the day rule, the day index of the
\* Column Map is the index of the first of them; a later one does not replace
\* it and is registered under no field at all.  (Without such a cell the map
\* has no day.)
C16_FirstDayCellKept ==
    Resolved =>
        LET cells == DayCells IN
        IF cells = {} THEN "day" \notin DOMAIN ret.basic
        ELSE /\ "day" \in DOMAIN ret.basic
             /\ ret.basic["day"] = First(cells)
             /\ \A i \in cells \ {First(cells)} : RegisteredAt(i) = {}

\* two cells match the day rule, and the later one, which also matches the
\* place rule, has not become the place
C16_Witness ==
    /\ Resolved
    /\ Cardinality(DayCells) >= 2
    /\ \E i \in DayCells :
         /\ i > FirstDayCell
         /\ "place" \in RulesMatched(i)
         /\ RegisteredAt(i) = {}
    /\ ret.basic["day"] = FirstDayCell

\* the label is the day label itself: '日', or 'day' in any case
ExactDayLabel(label) == label = <<"u65E5">> \/ Lower(label) = <<"d", "a", "y">>

\* C17: the day is resolved only from a header cell whose trimmed label is
\* exactly the day label ('day' in any case, or '日'); a cell whose label
\* only contains it, like 'Weekday', is not taken as the day column.
C17_DayFromExactLabel ==
    Resolved /\ "day" \in DOMAIN ret.basic => ExactDayLabel(Label(ret.basic["day"]))

\* what find_columns does: the day column is the first cell whose trimmed
\* label is '日' or contains 'day' in any case
C17_DayFromLabelContainingDay ==
    Resolved /\ "day" \in DOMAIN ret.basic =>
        \/ Label(ret.basic["day"]) = <<"u65E5">>
        \/ Contains(Lower(Label(ret.basic["day"])), <<"d", "a", "y">>)


\* the records of a grouping structure, each with the key of its group
Members(ks) ==
    UNION {{<<ks[a].key, ks[a].recs[i]>> : i \in 1..Len(ks[a].recs)} : a \in 1..Len(ks)}

\* how many records the structure holds
Size(ks) == Cardinality({p \in (1..Len(ks)) \X (1..(nrec + 1)) : p[2] <= Len(ks[p[1]].recs)})

\* the same groups in the same order, each with the same records in some order
Permuted(ks, ls) ==
    /\ Len(ls) = Len(ks)
    /\ \A a \in 1..Len(ks) :
         /\ ls[a].key = ks[a].key
         /\ Len(ls[a].recs) = Len(ks[a].recs)
         /\ {ls[a].recs[i] : i \in 1..Len(ls[a].recs)}
              = {ks[a].recs[i] : i \in 1..Len(ks[a].recs)}

\* C18: while the run lasts, the grouping structure only grows: a record once
\* in a group stays in that group with every field as it was; one step adds at
\* most one record; a row that yields no record, a sheet that is ignored or
\* skipped, the end of a sheet and the export leave the structure as it is;
\* the final sort keeps the groups and only reorders the records of a group.
C18_GroupsOnlyGrow ==
    [][pc' # "failed" =>
         /\ Members(Kepts) \subseteq Members(Kepts')
         /\ Size(Kepts') \in {Size(Kepts), Size(Kepts) + 1}
         /\ pc = "rows" /\ pc' = "rows" /\ ~lastOut'.ok => Kepts' = Kepts
         /\ pc = "rows" /\ pc' = "sheets" => Kepts' = Kepts
         /\ pc = "sheets" /\ pc' = "sheets" => Kepts' = Kepts
         /\ pc = "sheets" /\ pc' \in {"export", "nodata"} => Permuted(Kepts, Kepts')
         /\ pc = "export" => Kepts' = Kepts /\ units' = units]_vars

\* the sort has put a record in front of one that was appended earlier, and
\* the group has been exported
C18_Witness ==
    /\ pc = "done"
    /\ \E a \in 1..Len(Kepts) :
         /\ Len(Kepts[a].recs) = 2
         /\ Kepts[a].recs[1].id > Kepts[a].recs[2].id


\* the sheet row number of the row met last
LastRowAt == rowAt[Len(rowAt)]

\* the scripts whose iter_rows has max_row=1000
Capped == variant \in {"split", "final", "preserve", "subcat"}

\* the row passes every check the script makes
PassesChecks(row) == RowValid(row) /\ TakenWhenValid(row)

\* C19: convert_excel_split, convert_excel_final,
\* convert_excel_preserve_categories and convert_excel_with_subcategories scan
\* the sheet rows 2 to 1000 only: a row after row 1000 yields no record even
\* when it passes every check, and a row up to row 1000 that passes yields
\* one; convert_excel scans every row from row 2, so a row that passes yields
\* a record wherever it is.
C19_RowsAfterLimitNotScanned ==
    InSheet =>
        /\ AfterRow /\ Capped /\ LastRowAt > max_row => ~lastOut.ok
        /\ AfterRow /\ Capped /\ LastRowAt <= max_row =>
             (lastOut.ok <=> PassesChecks(LastRow))
        /\ AfterRow /\ ~Capped => (lastOut.ok <=> PassesChecks(LastRow))
        /\ \A i \in 1..Len(rowAt) : rowAt[i] >= 2
        /\ KeptFrom(Len(sheetLog)) =
             Cardinality({i \in 1..Len(sheetRows) :
                            /\ PassesChecks(sheetRows[i])
                            /\ Capped => rowAt[i] <= max_row})

\* in a script with the limit, the row at sheet row 1000 has yielded a record
\* and the same row at sheet row 1001 has yielded none
C19_Witness ==
    /\ InSheet
    /\ Capped
    /\ rowAt = <<max_row, max_row + 1>>
    /\ PassesChecks(sheetRows[1])
    /\ sheetRows[2] = sheetRows[1]
    /\ ~lastOut.ok
    /\ KeptFrom(Len(sheetLog)) = 1

\* in convert_excel the row at sheet row 1001 has yielded a record
C19_WitnessNoLimit ==
    /\ InSheet
    /\ variant = "excel"
    /\ AfterRow
    /\ LastRowAt = max_row + 1
    /\ lastOut.ok

====
